---- MODULE Spec2Model ----
(***************************************************************************)
(* Model of the aggregation layer of survey-summarizer:                    *)
(*   src/src/helpers/extract_data.py         the four aggregators          *)
(*   src/src/southeast_pa_funding_options.py the same aggregators, the     *)
(*                                           schema and crunch_raw_data    *)
(*                                                                         *)
(* A string is a sequence of one-character strings, so that splitting on   *)
(* ';' and substring containment are computed, not assumed.  A cell of a   *)
(* pandas Series is a record: na = TRUE for NaN/None, else s is the text.  *)
(***************************************************************************)
EXTENDS Integers, Sequences, FiniteSets, TLC

VARIABLES
    pc,                         \* position of the running call
    data_series,                \* argument of the single-column aggregators
    raw_df,                     \* argument of count_responses_to_multi_entry_question
    list_of_cols_to_summarize,  \* argument of count_responses_to_multi_entry_question
    list_of_options,            \* argument of count_responses_to_multi_entry_question
    result,                     \* value returned by an aggregator called on its own
    filepath,                   \* the CSV table crunch_raw_data reads
    place_filter,               \* the optional place filter of the orchestrator
    df,                         \* crunch_raw_data's local dataframe
    crunched_data,              \* crunch_raw_data's local result dictionary
    calls                       \* aggregator invocations made by crunch_raw_data

vars == <<pc, data_series, raw_df, list_of_cols_to_summarize, list_of_options,
          result, filepath, place_filter, df, crunched_data, calls>>

(***************************************************************************)
(* Cells and strings                                                       *)
(***************************************************************************)
NA == [na |-> TRUE, s |-> <<>>]

Str(s) == [na |-> FALSE, s |-> s]

\* pandas' Series.dropna(): the entries that are not NaN/None, in order.
\* The empty string is not NaN and is kept.
dropna(series) == SelectSeq(series, LAMBDA c : ~c.na)

Reverse(seq) == [i \in 1..Len(seq) |-> seq[Len(seq) + 1 - i]]

\* Position of the first ';' of s, or 0.
FirstSemicolon(s) ==
    IF \E i \in 1..Len(s) : s[i] = ";"
    THEN CHOOSE i \in 1..Len(s) : s[i] = ";" /\ \A j \in 1..(i - 1) : s[j] # ";"
    ELSE 0

\* Python's str.split(";"): the pieces between the semicolons, empty pieces
\* included; a string without ';' (the empty string too) is its only piece.
RECURSIVE split(_)
split(s) ==
    LET i == FirstSemicolon(s)
    IN IF i = 0 THEN <<s>>
       ELSE <<SubSeq(s, 1, i - 1)>> \o split(SubSeq(s, i + 1, Len(s)))

(***************************************************************************)
(* count_semicolon_list                                                    *)
(***************************************************************************)
\* A Python dict as the sequence of its (key, value) pairs in insertion order.
DictKeys(d) == [i \in 1..Len(d) |-> d[i].key]

DictHas(d, k) == \E i \in 1..Len(d) : d[i].key = k

DictGet(d, k) == d[CHOOSE i \in 1..Len(d) : d[i].key = k].value

\* results[item] = 0 when missing, then results[item] += 1
CountItem(d, item) ==
    IF DictHas(d, item)
    THEN [i \in 1..Len(d) |->
            IF d[i].key = item THEN [key |-> item, value |-> d[i].value + 1] ELSE d[i]]
    ELSE Append(d, [key |-> item, value |-> 1])

RECURSIVE CountItems(_, _)
CountItems(d, items) ==
    IF items = <<>> THEN d
    ELSE CountItems(CountItem(d, Head(items)), Tail(items))

\* The two nested loops over the non-absent entries and their pieces.
RECURSIVE CountEntries(_, _)
CountEntries(d, entries) ==
    IF entries = <<>> THEN d
    ELSE CountEntries(CountItems(d, split(Head(entries).s)), Tail(entries))

\* Insert k after every key whose value is <= its own: a stable ascending sort.
RECURSIVE InsertByValue(_, _, _)
InsertByValue(sorted, k, d) ==
    IF sorted = <<>> THEN <<k>>
    ELSE IF DictGet(d, Head(sorted)) <= DictGet(d, k)
         THEN <<Head(sorted)>> \o InsertByValue(Tail(sorted), k, d)
         ELSE <<k>> \o sorted

RECURSIVE SortKeys(_, _, _)
SortKeys(sorted, keys, d) ==
    IF keys = <<>> THEN sorted
    ELSE SortKeys(InsertByValue(sorted, Head(keys), d), Tail(keys), d)

\* sorted(results, key=results.get): Python's sort is stable and ascending.
sorted_by_value(d) == SortKeys(<<>>, DictKeys(d), d)

MutantUnreversedOrder(d) == sorted_by_value(d)

\* reversed(sorted(results, key=results.get))
results_as_ordered_list(d) == Reverse(sorted_by_value(d))

MutantSkipEmptyItems(series) ==
    LET results == CountEntries(<<>>, dropna(series))
        kept == SelectSeq(results_as_ordered_list(results), LAMBDA x : x # <<>>)
    IN [i \in 1..Len(kept) |-> [text_value |-> kept[i], count |-> DictGet(results, kept[i])]]

count_semicolon_list(series) ==
    LET results == CountEntries(<<>>, dropna(series))
        ordered == results_as_ordered_list(results)
    IN [i \in 1..Len(ordered) |->
            [text_value |-> ordered[i], count |-> DictGet(results, ordered[i])]]

(***************************************************************************)
(* count_the_values                                                        *)
(***************************************************************************)
\* Insert k before the first key with a smaller count: a descending order in
\* which equal counts keep the order of first appearance.
RECURSIVE InsertByCountDesc(_, _, _)
InsertByCountDesc(sorted, k, d) ==
    IF sorted = <<>> THEN <<k>>
    ELSE IF DictGet(d, Head(sorted)) >= DictGet(d, k)
         THEN <<Head(sorted)>> \o InsertByCountDesc(Tail(sorted), k, d)
         ELSE <<k>> \o sorted

RECURSIVE SortKeysDesc(_, _, _)
SortKeysDesc(sorted, keys, d) ==
    IF keys = <<>> THEN sorted
    ELSE SortKeysDesc(InsertByCountDesc(sorted, Head(keys), d), Tail(keys), d)

Texts(entries) == [i \in 1..Len(entries) |-> entries[i].s]

\* Series.value_counts(dropna=...): one (value, count) pair per distinct value,
\* most frequent first.  No claim below depends on the order of equal counts.
value_counts(entries) ==
    LET counts == CountItems(<<>>, Texts(entries))
        keys == SortKeysDesc(<<>>, DictKeys(counts), counts)
    IN [i \in 1..Len(keys) |-> [value |-> keys[i], count |-> DictGet(counts, keys[i])]]

MutantCountNaToo(series) ==
    value_counts(series)

count_the_values(series) ==
    value_counts(dropna(series))

(***************************************************************************)
(* get_freeform_text                                                       *)
(***************************************************************************)
MutantDropFalsy(series) ==
    Texts(SelectSeq(series, LAMBDA c : ~c.na /\ c.s # <<>>))

MutantDropDuplicates(series) ==
    LET kept == Texts(dropna(series))
    IN DictKeys(CountItems(<<>>, kept))

\* data_series.dropna().to_frame(): a one-field table, one row per kept entry.
get_freeform_text(series) ==
    Texts(dropna(series))

(***************************************************************************)
(* Inputs of the single-column aggregators                                 *)
(***************************************************************************)
MaxRows == 4

\* "", "a", "A", ";", "a;", "a;b", "b;c"
SampleTexts ==
    {<<>>, <<"a">>, <<"A">>, <<";">>, <<"a", ";">>, <<"a", ";", "b">>, <<"b", ";", "c">>}

SampleCells == {NA} \cup {Str(t) : t \in SampleTexts}

SeqsUpTo(S, n) == UNION {[1..k -> S] : k \in 0..n}

NoTable == [columns |-> <<>>, data |-> <<>>]

NoCrunch == [multi_radio_questions |-> <<>>, yes_no |-> <<>>,
             semicolon_lists |-> <<>>, freeform_text |-> <<>>]

InitSeries ==
    /\ pc = "call"
    /\ data_series \in SeqsUpTo(SampleCells, MaxRows)
    /\ raw_df = NoTable
    /\ list_of_cols_to_summarize = <<>>
    /\ list_of_options = <<>>
    /\ result = <<>>
    /\ filepath = NoTable
    /\ place_filter = NA
    /\ df = NoTable
    /\ crunched_data = NoCrunch
    /\ calls = 0

Call_count_semicolon_list ==
    /\ pc = "call"
    /\ result' = count_semicolon_list(data_series)
    /\ pc' = "count_semicolon_list"
    /\ UNCHANGED <<data_series, raw_df, list_of_cols_to_summarize, list_of_options,
                   filepath, place_filter, df, crunched_data, calls>>

Call_count_the_values ==
    /\ pc = "call"
    /\ result' = count_the_values(data_series)
    /\ pc' = "count_the_values"
    /\ UNCHANGED <<data_series, raw_df, list_of_cols_to_summarize, list_of_options,
                   filepath, place_filter, df, crunched_data, calls>>

Call_get_freeform_text ==
    /\ pc = "call"
    /\ result' = get_freeform_text(data_series)
    /\ pc' = "get_freeform_text"
    /\ UNCHANGED <<data_series, raw_df, list_of_cols_to_summarize, list_of_options,
                   filepath, place_filter, df, crunched_data, calls>>

NextSeries ==
    \/ Call_count_semicolon_list
    \/ Call_count_the_values
    \/ Call_get_freeform_text

SpecSeries == InitSeries /\ [][NextSeries]_vars

(***************************************************************************)
(* Properties of the single-column aggregators                             *)
(***************************************************************************)
\* The pieces of s read off its text: a piece starts after position b, where
\* b is 0 or the position of a ';', and runs to the next ';' or to the end.
PieceStarts(s) == {0} \cup {i \in 1..Len(s) : s[i] = ";"}

PieceEnd(s, b) ==
    IF \E i \in (b + 1)..Len(s) : s[i] = ";"
    THEN CHOOSE i \in (b + 1)..Len(s) : s[i] = ";" /\ \A j \in (b + 1)..(i - 1) : s[j] # ";"
    ELSE Len(s) + 1

PieceAt(s, b) == SubSeq(s, b + 1, PieceEnd(s, b) - 1)

Present(series) == {i \in 1..Len(series) : ~series[i].na}

\* Every occurrence of a token in the input: <<row, start, token>>.
Occurrences(series) ==
    UNION {{<<i, b, PieceAt(series[i].s, b)>> : b \in PieceStarts(series[i].s)} :
            i \in Present(series)}

OccurrencesOf(series, token) == {o \in Occurrences(series) : o[3] = token}

\* token t was first met before token u
FirstMetBefore(series, t, u) ==
    \E o \in OccurrencesOf(series, t) :
        \A q \in OccurrencesOf(series, u) :
            o[1] < q[1] \/ (o[1] = q[1] /\ o[2] < q[2])

RECURSIVE SumCounts(_)
SumCounts(rows) == IF rows = <<>> THEN 0 ELSE Head(rows).count + SumCounts(Tail(rows))

\* C2: count_semicolon_list returns exactly one row per distinct token of the
\* non-absent cells split on ';' (empty tokens included), each with the total
\* number of occurrences of that token; the counts add up to the number of
\* tokens the splits produce.
C2_OneRowPerTokenWithItsCount ==
    pc = "count_semicolon_list" =>
        /\ \A i, j \in 1..Len(result) :
                result[i].text_value = result[j].text_value => i = j
        /\ \A i \in 1..Len(result) :
                /\ result[i].count = Cardinality(OccurrencesOf(data_series, result[i].text_value))
                /\ result[i].count > 0
        /\ \A o \in Occurrences(data_series) :
                \E i \in 1..Len(result) : result[i].text_value = o[3]
        /\ SumCounts(result) = Cardinality(Occurrences(data_series))

\* ["a;", None, ";", "a;b"]: a:2, "":3, b:1, the absent cell adding nothing.
C2_Witness ==
    /\ pc = "count_semicolon_list"
    /\ data_series = <<Str(<<"a", ";">>), NA, Str(<<";">>), Str(<<"a", ";", "b">>)>>
    /\ \E i \in 1..Len(result) : result[i] = [text_value |-> <<>>, count |-> 3]
    /\ \E i \in 1..Len(result) : result[i] = [text_value |-> <<"a">>, count |-> 2]
    /\ Len(result) = 3

\* C3: the rows of count_semicolon_list are in descending order of count, and
\* of two tokens with equal counts the one first met later comes first.
C3_DescendingTiesInReverseInsertionOrder ==
    pc = "count_semicolon_list" =>
        \A j, k \in 1..Len(result) :
            j < k =>
                /\ result[j].count >= result[k].count
                /\ result[j].count = result[k].count =>
                        FirstMetBefore(data_series, result[k].text_value,
                                       result[j].text_value)

\* ["a;b", "a", None, "b;c"]: a and b tie at 2 and b, met second, comes first.
C3_Witness ==
    /\ pc = "count_semicolon_list"
    /\ data_series = <<Str(<<"a", ";", "b">>), Str(<<"a">>), NA, Str(<<"b", ";", "c">>)>>
    /\ result = <<[text_value |-> <<"b">>, count |-> 2],
                  [text_value |-> <<"a">>, count |-> 2],
                  [text_value |-> <<"c">>, count |-> 1]>>

\* C4: count_the_values lists each distinct non-absent value exactly once with
\* its number of occurrences, lists no absent value, and its counts add up to
\* the number of non-absent entries (none at all for an all-absent input).
C4_EachValueOnceWithItsCount ==
    pc = "count_the_values" =>
        /\ \A i, j \in 1..Len(result) : result[i].value = result[j].value => i = j
        /\ \A i \in 1..Len(result) :
                /\ result[i].count =
                      Cardinality({r \in Present(data_series) :
                                      data_series[r].s = result[i].value})
                /\ result[i].count > 0
        /\ \A r \in Present(data_series) :
                \E i \in 1..Len(result) : result[i].value = data_series[r].s
        /\ SumCounts(result) = Cardinality(Present(data_series))
        /\ Present(data_series) = {} => result = <<>>

C4_Witness ==
    /\ pc = "count_the_values"
    /\ data_series = <<Str(<<"a">>), NA, Str(<<"A">>), Str(<<"a">>)>>
    /\ result = <<[value |-> <<"a">>, count |-> 2], [value |-> <<"A">>, count |-> 1]>>

\* Number of non-absent entries among the first i.
Rank(series, i) == Cardinality({j \in Present(series) : j <= i})

\* C7: get_freeform_text returns the non-absent entries, in row order, with
\* their text unchanged and repeated entries kept.
C7_NonAbsentEntriesInOrder ==
    pc = "get_freeform_text" =>
        /\ Len(result) = Cardinality(Present(data_series))
        /\ \A i \in Present(data_series) : result[Rank(data_series, i)] = data_series[i].s

C7_Witness ==
    /\ pc = "get_freeform_text"
    /\ data_series = <<Str(<<"a", ";">>), NA, Str(<<"A">>), Str(<<"a", ";">>)>>
    /\ result = <<<<"a", ";">>, <<"A">>, <<"a", ";">>>>

EmptyRows(texts) == {k \in 1..Len(texts) : texts[k] = <<>>}

ColumnIndex(frame, col) == CHOOSE i \in 1..Len(frame.columns) : frame.columns[i] = col

Column(frame, col) ==
    [r \in 1..Len(frame.data) |-> frame.data[r][ColumnIndex(frame, col)]]

\* d[k] = v: an existing key keeps its place, a new key goes last.
DictSet(d, k, v) ==
    IF DictHas(d, k)
    THEN [i \in 1..Len(d) |-> IF d[i].key = k THEN [key |-> k, value |-> v] ELSE d[i]]
    ELSE Append(d, [key |-> k, value |-> v])

DictValues(d) == [i \in 1..Len(d) |-> d[i].value]

\* First loop: question_results[col] = the value counts of raw_df[col].
RECURSIVE question_results(_, _, _)
question_results(d, frame, cols) ==
    IF cols = <<>> THEN d
    ELSE question_results(DictSet(d, Head(cols), count_the_values(Column(frame, Head(cols)))),
                          frame, Tail(cols))

\* option_results[possible_option] = 0 for every option
RECURSIVE ZeroOptions(_, _)
ZeroOptions(d, options) ==
    IF options = <<>> THEN d
    ELSE ZeroOptions(DictSet(d, Head(options), 0), Tail(options))

RECURSIVE MutantMatchAnyValue(_, _, _)
MutantMatchAnyValue(d, row, options) ==
    IF options = <<>> THEN d
    ELSE MutantMatchAnyValue(DictSet(d, Head(options), row.count), row, Tail(options))

\* Inner loop for one row of the counts: every option equal to the row's
\* value takes the row's count.
RECURSIVE MatchOptions(_, _, _)
MatchOptions(d, row, options) ==
    IF options = <<>> THEN d
    ELSE MatchOptions(IF Head(options) = row.value
                      THEN DictSet(d, Head(options), row.count)
                      ELSE d,
                      row, Tail(options))

RECURSIVE MatchRows(_, _, _)
MatchRows(d, rows, options) ==
    IF rows = <<>> THEN d
    ELSE MatchRows(MatchOptions(d, Head(rows), options), Tail(rows), options)

MutantNoZeroFill(option_df, options) ==
    MatchRows(<<>>, option_df, options)

option_results(option_df, options) ==
    MatchRows(ZeroOptions(<<>>, options), option_df, options)

OptionHeader == <<"O", "p", "t", "i", "o", "n">>

MutantSkipEmptyColumns(frame, cols, options) ==
    LET qr == SelectSeq(question_results(<<>>, frame, cols), LAMBDA e : e.value # <<>>)
    IN [columns |-> <<OptionHeader>> \o options,
        rows |-> [i \in 1..Len(qr) |->
                    [Option |-> qr[i].key,
                     counts |-> DictValues(option_results(qr[i].value, options))]]]

\* Second loop and the returned frame: one new_row per entry of
\* question_results, the column name then the values of option_results.
count_responses_to_multi_entry_question(frame, cols, options) ==
    LET qr == question_results(<<>>, frame, cols)
    IN [columns |-> <<OptionHeader>> \o options,
        rows |-> [i \in 1..Len(qr) |->
                    [Option |-> qr[i].key,
                     counts |-> DictValues(option_results(qr[i].value, options))]]]

(***************************************************************************)
(* Inputs of count_responses_to_multi_entry_question                       *)
(***************************************************************************)
MaxRadioRows == 3

Low == <<"L", "o", "w">>

High == <<"H", "i", "g", "h">>

\* a value that is no allowed label
OffList == <<"l", "o", "w">>

SampleRadioRows ==
    {<<Str(Low), Str(High)>>, <<Str(High), NA>>, <<Str(OffList), Str(Low)>>,
     <<NA, Str(OffList)>>, <<Str(High), Str(High)>>}

SampleCols ==
    {<<"Q1", "Q2">>, <<"Q2", "Q1">>, <<"Q2">>, <<"Q1", "Q2", "Q1">>, <<>>, <<"Q1", "Q3">>}

SampleOptions == {<<Low, High>>, <<High, Low>>, <<High>>, <<>>}

InitRadio ==
    /\ pc = "call"
    /\ data_series = <<>>
    /\ \E rows \in SeqsUpTo(SampleRadioRows, MaxRadioRows) :
            raw_df = [columns |-> <<"Q1", "Q2">>, data |-> rows]
    /\ list_of_cols_to_summarize \in SampleCols
    /\ list_of_options \in SampleOptions
    /\ result = <<>>
    /\ filepath = NoTable
    /\ place_filter = NA
    /\ df = NoTable
    /\ crunched_data = NoCrunch
    /\ calls = 0

\* raw_df[col] raises KeyError for a name that is no column of raw_df; nothing
\* else in the function raises.
HasColumns(frame, cols) ==
    \A i \in 1..Len(cols) : \E j \in 1..Len(frame.columns) : frame.columns[j] = cols[i]

Call_count_responses_to_multi_entry_question ==
    /\ pc = "call"
    /\ IF HasColumns(raw_df, list_of_cols_to_summarize)
       THEN /\ result' = count_responses_to_multi_entry_question(
                            raw_df, list_of_cols_to_summarize, list_of_options)
            /\ pc' = "count_responses_to_multi_entry_question"
       ELSE /\ result' = result
            /\ pc' = "KeyError"
    /\ UNCHANGED <<data_series, raw_df, list_of_cols_to_summarize, list_of_options,
                   filepath, place_filter, df, crunched_data, calls>>

NextRadio == Call_count_responses_to_multi_entry_question

SpecRadio == InitRadio /\ [][NextRadio]_vars

(***************************************************************************)
(* Properties of count_responses_to_multi_entry_question                   *)
(***************************************************************************)
Declared(cols) == {cols[i] : i \in 1..Len(cols)}

FirstDeclared(cols, c) == CHOOSE i \in 1..Len(cols) : cols[i] = c /\ \A j \in 1..(i - 1) : cols[j] # c

\* Entries of a column that are exactly the given label.
EntriesEqual(frame, col, label) ==
    {r \in 1..Len(frame.data) :
        LET c == frame.data[r][ColumnIndex(frame, col)] IN ~c.na /\ c.s = label}

\* C1: count_responses_to_multi_entry_question returns one row per
\* sub-question column, in the order the columns are declared, with the fields
\* Option then the allowed labels in declared order; Option is the column
\* name and each label field is the number of entries of that column equal to
\* the label, 0 when there is none.  (A column declared more than once is one
\* column and has one row, at its first place.)
C1_OneRowPerColumnWithLabelCounts ==
    pc = "count_responses_to_multi_entry_question" =>
        /\ result.columns = <<OptionHeader>> \o list_of_options
        /\ Len(result.rows) = Cardinality(Declared(list_of_cols_to_summarize))
        /\ \A c \in Declared(list_of_cols_to_summarize) :
                \E i \in 1..Len(result.rows) : result.rows[i].Option = c
        /\ \A i, j \in 1..Len(result.rows) :
                i < j => FirstDeclared(list_of_cols_to_summarize, result.rows[i].Option)
                            < FirstDeclared(list_of_cols_to_summarize, result.rows[j].Option)
        /\ Len(list_of_cols_to_summarize) = Cardinality(Declared(list_of_cols_to_summarize))
                => \A i \in 1..Len(result.rows) :
                        result.rows[i].Option = list_of_cols_to_summarize[i]
        /\ \A i \in 1..Len(result.rows) :
                /\ Len(result.rows[i].counts) = Len(list_of_options)
                /\ \A k \in 1..Len(list_of_options) :
                        result.rows[i].counts[k] =
                            Cardinality(EntriesEqual(raw_df, result.rows[i].Option,
                                                     list_of_options[k]))

\* Q1 = [Low, Low, High], Q2 = [High, High, absent], options [Low, High]:
\* (Q1, 2, 1), (Q2, 0, 2).
C1_Witness ==
    /\ pc = "count_responses_to_multi_entry_question"
    /\ raw_df.data = <<<<Str(Low), Str(High)>>, <<Str(Low), Str(High)>>, <<Str(High), NA>>>>
    /\ list_of_cols_to_summarize = <<"Q1", "Q2">>
    /\ list_of_options = <<Low, High>>
    /\ result.rows = <<[Option |-> "Q1", counts |-> <<2, 1>>],
                       [Option |-> "Q2", counts |-> <<0, 2>>]>>

RECURSIVE SumSeq(_)
SumSeq(ns) == IF ns = <<>> THEN 0 ELSE Head(ns) + SumSeq(Tail(ns))

AllowedLabels == {list_of_options[k] : k \in 1..Len(list_of_options)}

\* C9: a value of a sub-question column that is none of the allowed labels is
\* counted in no field and fails nothing: the call raises only for a name that
\* is no column of the table, every declared sub-question has its row, and a row's counts add up to the number of
\* entries of its column that equal some allowed label.
C9_UnmatchedValuesCountedNowhere ==
    /\ pc = "KeyError" => ~HasColumns(raw_df, list_of_cols_to_summarize)
    /\ pc = "count_responses_to_multi_entry_question" =>
        /\ \A c \in Declared(list_of_cols_to_summarize) :
                \E i \in 1..Len(result.rows) : result.rows[i].Option = c
        /\ \A i \in 1..Len(result.rows) :
                SumSeq(result.rows[i].counts) =
                    Cardinality(UNION {EntriesEqual(raw_df, result.rows[i].Option, l) :
                                        l \in AllowedLabels})

\* Q1 = [low, Low, absent], Q2 = [Low, High, low]: "low" is no allowed label.
C9_Witness ==
    /\ pc = "count_responses_to_multi_entry_question"
    /\ raw_df.data = <<<<Str(OffList), Str(Low)>>, <<Str(Low), Str(High)>>, <<NA, Str(OffList)>>>>
    /\ list_of_cols_to_summarize = <<"Q1", "Q2">>
    /\ list_of_options = <<Low, High>>
    /\ result.rows = <<[Option |-> "Q1", counts |-> <<1, 0>>],
                       [Option |-> "Q2", counts |-> <<1, 1>>]>>

(***************************************************************************)
(* The schema of southeast_pa_funding_options.py                           *)
(***************************************************************************)
\* The 29 column names, in the order of the CSV file (the typographic
\* apostrophe of "region's" is written as an ASCII one).
survey_form ==
    <<"Timestamp",
      "What is your view of the transportation network in southeastern Pennsylvania, including  current condition, coverage and services? (Choose as many as apply)",
      "New or extended rail lines",
      "Highway capacity improvements",
      "New roads or road extensions",
      "Improve maintenance, safety and operations of the highway and transit network",
      "Speed up transit / increase service frequency",
      "More trails and bicycle/pedestrian improvements",
      "List any specific projects or improvements that you feel are critical to the region's future.",
      "Do you support raising state funds across Pennsylvania to pay for transportation needs?",
      "Toll Major Bridges",
      "Tolls on Managed Lanes",
      "Congestion Pricing",
      "Corridor Tolling",
      "Road User Charge",
      "Fees or Tax increases on other non-transportation items",
      "Do you support raising funds at the city or county level in Southeast Pennsylvania to supplement federal and state funds to pay for local transportation needs?",
      "Earned Income Tax",
      "Local Services Tax",
      "Real Estate Transfer Tax",
      "Vehicle Property Tax",
      "Property Tax",
      "Sales Tax",
      "Uber and Lyft fee",
      "Local Gasoline Tax",
      "Do you have other ideas or suggestions about how the region could fund transportation investments?",
      "Is there anything else you would like to share with us regarding the region's transportation and funding?",
      "Who do you represent?: (check all that apply)",
      "Where do you serve?: (check all that apply)">>

\* "Lowest priority", "Medium priority", "Highest priority"
PriorityOptions ==
    <<<<"L", "o", "w", "e", "s", "t", " ", "p", "r", "i", "o", "r", "i", "t", "y">>,
      <<"M", "e", "d", "i", "u", "m", " ", "p", "r", "i", "o", "r", "i", "t", "y">>,
      <<"H", "i", "g", "h", "e", "s", "t", " ", "p", "r", "i", "o", "r", "i", "t", "y">>>>

\* "I oppose this", "I need to learn more", "I support this"
SupportOptions ==
    <<<<"I", " ", "o", "p", "p", "o", "s", "e", " ", "t", "h", "i", "s">>,
      <<"I", " ", "n", "e", "e", "d", " ", "t", "o", " ", "l", "e", "a", "r", "n", " ", "m", "o", "r", "e">>,
      <<"I", " ", "s", "u", "p", "p", "o", "r", "t", " ", "t", "h", "i", "s">>>>

\* The dict questions, in insertion order; survey_form[a:b] of Python is
\* SubSeq(survey_form, a + 1, b).
questions ==
    <<[prompt |-> "What kind of improvements, if any, would you like to see to improve the transportation network?",
       columns |-> SubSeq(survey_form, 3, 8),
       options |-> PriorityOptions],
      [prompt |-> survey_form[10],
       columns |-> SubSeq(survey_form, 11, 16),
       options |-> SupportOptions],
      [prompt |-> survey_form[17],
       columns |-> SubSeq(survey_form, 18, 25),
       options |-> SupportOptions]>>

freeform_text == <<survey_form[9]>> \o SubSeq(survey_form, 26, 27)

semicolon_lists == <<survey_form[2]>> \o SubSeq(survey_form, 28, Len(survey_form))

yes_no == <<survey_form[10], survey_form[17]>>

(***************************************************************************)
(* crunch_raw_data                                                         *)
(***************************************************************************)
MutantNeverMismatch(frame, names) == FALSE

\* df.columns = survey_form raises ValueError (length mismatch) unless the
\* frame has exactly as many columns as there are names.
LengthMismatch(frame, names) == Len(frame.columns) # Len(names)

MutantKeepInputHeaders(frame, names) == frame

\* df.columns = survey_form: the data stay where they are and the i-th column
\* takes the i-th name, whatever its header was.
set_columns(frame, names) == [columns |-> names, data |-> frame.data]

\* s contains sub as a contiguous substring (case-sensitive).
Contains(s, sub) ==
    \E i \in 0..(Len(s) - Len(sub)) : SubSeq(s, i + 1, i + Len(sub)) = sub

\* "no response provided"
Placeholder == <<"n", "o", " ", "r", "e", "s", "p", "o", "n", "s", "e", " ", "p", "r", "o", "v", "i", "d", "e", "d">>

\* The serving-area column: "Where do you serve?: (check all that apply)".
ServingArea == survey_form[Len(survey_form)]

MutantNoPlaceholder(c, sub) == Contains(c.s, sub)

\* A serving-area cell passes the filter when its text, or the placeholder
\* standing for an absent cell, contains the filter substring.
PassesFilter(c, sub) == Contains(IF c.na THEN Placeholder ELSE c.s, sub)

\* The place filter: without one the frame is left as it is, with one the
\* rows whose serving-area cell passes it are kept, in order.
ApplyPlaceFilter(frame, filter) ==
    IF filter.na THEN frame
    ELSE [columns |-> frame.columns,
          data |-> SelectSeq(frame.data,
                     LAMBDA row : PassesFilter(row[ColumnIndex(frame, ServingArea)],
                                               filter.s))]

\* pd.read_csv(filepath); df.columns = survey_form
crunch_read ==
    /\ pc = "crunch_raw_data"
    /\ IF LengthMismatch(filepath, survey_form)
       THEN /\ pc' = "ValueError"
            /\ df' = df
       ELSE /\ pc' = "columns_set"
            /\ df' = set_columns(filepath, survey_form)
    /\ UNCHANGED <<data_series, raw_df, list_of_cols_to_summarize, list_of_options,
                   result, filepath, place_filter, crunched_data, calls>>

\* the optional restriction of df to the rows of one place
crunch_place_filter ==
    /\ pc = "columns_set"
    /\ df' = ApplyPlaceFilter(df, place_filter)
    /\ pc' = "yes_no"
    /\ UNCHANGED <<data_series, raw_df, list_of_cols_to_summarize, list_of_options,
                   result, filepath, place_filter, crunched_data, calls>>

\* for colname in yes_no: ... count_the_values(df[colname])
crunch_yes_no ==
    /\ pc = "yes_no"
    /\ crunched_data' =
          [crunched_data EXCEPT !.yes_no =
              [c \in {yes_no[i] : i \in 1..Len(yes_no)} |-> count_the_values(Column(df, c))]]
    /\ calls' = calls + Len(yes_no)
    /\ pc' = "semicolon_lists"
    /\ UNCHANGED <<data_series, raw_df, list_of_cols_to_summarize, list_of_options,
                   result, filepath, place_filter, df>>

\* for colname in semicolon_lists: ... count_semicolon_list(df[colname])
crunch_semicolon_lists ==
    /\ pc = "semicolon_lists"
    /\ crunched_data' =
          [crunched_data EXCEPT !.semicolon_lists =
              [c \in {semicolon_lists[i] : i \in 1..Len(semicolon_lists)} |->
                  count_semicolon_list(Column(df, c))]]
    /\ calls' = calls + Len(semicolon_lists)
    /\ pc' = "freeform_text"
    /\ UNCHANGED <<data_series, raw_df, list_of_cols_to_summarize, list_of_options,
                   result, filepath, place_filter, df>>

\* for colname in freeform_text: ... get_freeform_text(df[colname])
crunch_freeform_text ==
    /\ pc = "freeform_text"
    /\ crunched_data' =
          [crunched_data EXCEPT !.freeform_text =
              [c \in {freeform_text[i] : i \in 1..Len(freeform_text)} |->
                  get_freeform_text(Column(df, c))]]
    /\ calls' = calls + Len(freeform_text)
    /\ pc' = "multi_radio_questions"
    /\ UNCHANGED <<data_series, raw_df, list_of_cols_to_summarize, list_of_options,
                   result, filepath, place_filter, df>>

Question(prompt) == questions[CHOOSE i \in 1..Len(questions) : questions[i].prompt = prompt]

\* for prompt in questions: ... count_responses_to_multi_entry_question(df, columns, options)
crunch_multi_radio_questions ==
    /\ pc = "multi_radio_questions"
    /\ crunched_data' =
          [crunched_data EXCEPT !.multi_radio_questions =
              [p \in {questions[i].prompt : i \in 1..Len(questions)} |->
                  count_responses_to_multi_entry_question(
                      df, Question(p).columns, Question(p).options)]]
    /\ calls' = calls + Len(questions)
    /\ pc' = "return"
    /\ UNCHANGED <<data_series, raw_df, list_of_cols_to_summarize, list_of_options,
                   result, filepath, place_filter, df>>

\* return crunched_data
crunch_return ==
    /\ pc = "return"
    /\ result' = crunched_data
    /\ pc' = "returned"
    /\ UNCHANGED <<data_series, raw_df, list_of_cols_to_summarize, list_of_options,
                   filepath, place_filter, df, crunched_data, calls>>

(***************************************************************************)
(* Inputs of crunch_raw_data                                               *)
(***************************************************************************)
MaxCsvRows == 2

Yes == <<"Y", "e", "s">>

No == <<"N", "o">>

\* "Phila;Bucks"
PhilaBucks == <<"P", "h", "i", "l", "a", ";", "B", "u", "c", "k", "s">>

\* "phila"
LowerPhila == <<"p", "h", "i", "l", "a">>

Phila == <<"P", "h", "i", "l", "a">>

Letters == <<"a", "b", "c", "d", "e", "f", "g", "h", "i", "j", "k", "l", "m", "n", "o", "p", "q", "r", "s", "t", "u", "v", "w", "x", "y", "z", "A", "B", "C", "D", "E", "F", "G", "H">>

PositionsOf(names) == {ColumnIndex([columns |-> survey_form], names[i]) : i \in 1..Len(names)}

\* The options of the radio group whose columns include position i.
OptionsAt(i) ==
    LET q == CHOOSE k \in 1..Len(questions) : i \in PositionsOf(questions[k].columns)
    IN questions[q].options

IsRadio(i) == \E k \in 1..Len(questions) : i \in PositionsOf(questions[k].columns)

\* Four sample respondents; the cell at position i of each.
SampleCsvCell(kind, i) ==
    CASE kind = "blank" -> NA
      [] kind = "letters" -> Str(<<Letters[i]>>)
      [] kind = "supporter" ->
            IF i \in PositionsOf(yes_no) THEN Str(Yes)
            ELSE IF IsRadio(i) THEN Str(OptionsAt(i)[Len(OptionsAt(i))])
            ELSE IF i = Len(survey_form) THEN Str(PhilaBucks)
            ELSE Str(<<Letters[i], ";", "x">>)
      [] kind = "opponent" ->
            IF i \in PositionsOf(yes_no) THEN Str(No)
            ELSE IF IsRadio(i) THEN (IF i % 2 = 0 THEN Str(OptionsAt(i)[1]) ELSE Str(OffList))
            ELSE IF i = Len(survey_form) THEN Str(LowerPhila)
            ELSE Str(<<"x">>)

SampleKinds == {"blank", "letters", "supporter", "opponent"}

ColumnCounts == {Len(survey_form) - 1, Len(survey_form), Len(survey_form) + 1}

\* The header row of the file: the schema's names in order, or in reverse
\* order (every name then sits over another column's data); a file wider
\* than the schema has one more header.
SampleHeaders(n, reversed) ==
    LET names == IF reversed THEN Reverse(survey_form) ELSE survey_form
    IN [i \in 1..n |-> IF i <= Len(names) THEN names[i] ELSE "Email"]

SampleFilters == {NA, Str(Phila), Str(<<>>), Str(<<"n", "o">>)}

InitCrunch ==
    /\ pc = "crunch_raw_data"
    /\ data_series = <<>>
    /\ raw_df = NoTable
    /\ list_of_cols_to_summarize = <<>>
    /\ list_of_options = <<>>
    /\ result = <<>>
    /\ \E n \in ColumnCounts, reversed \in BOOLEAN,
          kinds \in SeqsUpTo(SampleKinds, MaxCsvRows) :
            filepath = [columns |-> SampleHeaders(n, reversed),
                        data |-> [r \in 1..Len(kinds) |->
                                    [i \in 1..n |-> SampleCsvCell(kinds[r], i)]]]
    /\ place_filter \in SampleFilters
    /\ df = NoTable
    /\ crunched_data = NoCrunch
    /\ calls = 0

NextCrunch ==
    \/ crunch_read
    \/ crunch_place_filter
    \/ crunch_yes_no
    \/ crunch_semicolon_lists
    \/ crunch_freeform_text
    \/ crunch_multi_radio_questions
    \/ crunch_return

SpecCrunch == InitCrunch /\ [][NextCrunch]_vars

(***************************************************************************)
(* Properties of crunch_raw_data                                           *)
(***************************************************************************)
\* C5: when the input's column count differs from the length of the schema's
\* column list, crunch_raw_data ends in the structural error before any
\* aggregator is invoked and returns nothing, not even a partial result.
C5_MismatchRaisesBeforeAggregation ==
    Len(filepath.columns) # Len(survey_form) =>
        /\ pc \in {"crunch_raw_data", "ValueError"}
        /\ calls = 0
        /\ crunched_data = NoCrunch
        /\ result = <<>>

\* 28 columns against the 29 of the schema, with data rows.
C5_Witness ==
    /\ pc = "ValueError"
    /\ Len(filepath.columns) = Len(survey_form) - 1
    /\ Len(filepath.data) > 0
    /\ calls = 0

\* The cells of the input file at position p, top to bottom.
InputColumnAt(p) == [r \in 1..Len(filepath.data) |-> filepath.data[r][p]]

PositionInSchema(name) == CHOOSE p \in 1..Len(survey_form) : survey_form[p] = name

\* C6: with as many input columns as the schema declares, and all rows kept,
\* what is aggregated under a schema name is the data of the input column at
\* that name's position in the schema, whatever header the input had there.
C6_AggregatesByPosition ==
    (pc = "returned" /\ place_filter.na) =>
        /\ \A i \in 1..Len(yes_no) :
              result.yes_no[yes_no[i]] =
                  count_the_values(InputColumnAt(PositionInSchema(yes_no[i])))
        /\ \A i \in 1..Len(semicolon_lists) :
              result.semicolon_lists[semicolon_lists[i]] =
                  count_semicolon_list(InputColumnAt(PositionInSchema(semicolon_lists[i])))
        /\ \A i \in 1..Len(freeform_text) :
              result.freeform_text[freeform_text[i]] =
                  get_freeform_text(InputColumnAt(PositionInSchema(freeform_text[i])))
        /\ \A q \in 1..Len(questions) :
              LET table == result.multi_radio_questions[questions[q].prompt]
              IN /\ Len(table.rows) = Len(questions[q].columns)
                 /\ \A i \in 1..Len(table.rows) :
                        /\ table.rows[i].Option = questions[q].columns[i]
                        /\ \A k \in 1..Len(questions[q].options) :
                              table.rows[i].counts[k] =
                                 Cardinality(
                                   {r \in 1..Len(filepath.data) :
                                      filepath.data[r][PositionInSchema(questions[q].columns[i])]
                                         = Str(questions[q].options[k])})

\* A file whose headers are the schema's names in reverse order: the first
\* yes/no question is counted from the 10th column, headed by another name.
C6_Witness ==
    /\ pc = "returned"
    /\ place_filter.na
    /\ filepath.columns = Reverse(survey_form)
    /\ Len(filepath.data) = 2
    /\ filepath.data[1][10] = Str(Yes)
    /\ filepath.data[2][10] = Str(<<"j">>)
    /\ result.yes_no[survey_form[10]] =
          <<[value |-> Yes, count |-> 1], [value |-> <<"j">>, count |-> 1]>>

\* Rows of the input whose serving-area cell is present and contains sub.
RowsContaining(sub) ==
    {r \in 1..Len(filepath.data) :
        LET c == filepath.data[r][Len(survey_form)] IN ~c.na /\ Contains(c.s, sub)}

RowsAbsent == {r \in 1..Len(filepath.data) : filepath.data[r][Len(survey_form)].na}

\* The rows of the input with the given numbers, in order.
RowsKept(keep) == SelectSeq(filepath.data, LAMBDA row : \E r \in keep : filepath.data[r] = row)

Supplied == ~place_filter.na /\ Len(filepath.columns) = Len(survey_form)

Aggregating == pc \in {"yes_no", "semicolon_lists", "freeform_text", "multi_radio_questions",
                       "return", "returned"}

EmptyInput == Len(filepath.data) = 0 /\ Len(filepath.columns) = Len(survey_form)

\* C11: with no data rows and the schema's column count, crunch_raw_data
\* raises nothing and returns well-formed tables: every yes/no table, every
\* semicolon table and every freeform table is empty, and every radio-group
\* table has one row per declared sub-question column, in order, with 0 under
\* every allowed label.
C11_EmptyInputGivesEmptyTables ==
    EmptyInput =>
        /\ pc # "ValueError"
        /\ pc = "returned" =>
            /\ \A i \in 1..Len(yes_no) : result.yes_no[yes_no[i]] = <<>>
            /\ \A i \in 1..Len(semicolon_lists) :
                    result.semicolon_lists[semicolon_lists[i]] = <<>>
            /\ \A i \in 1..Len(freeform_text) :
                    result.freeform_text[freeform_text[i]] = <<>>
            /\ \A q \in 1..Len(questions) :
                    LET table == result.multi_radio_questions[questions[q].prompt]
                    IN /\ table.columns = <<OptionHeader>> \o questions[q].options
                       /\ Len(table.rows) = Len(questions[q].columns)
                       /\ \A i \in 1..Len(table.rows) :
                            /\ table.rows[i].Option = questions[q].columns[i]
                            /\ table.rows[i].counts =
                                  [k \in 1..Len(questions[q].options) |-> 0]

\* A header-only file of 29 columns, crunched to the end: the first radio
\* group has its six rows, each (name, 0, 0, 0).
C11_Witness ==
    /\ pc = "returned"
    /\ EmptyInput
    /\ calls = Len(yes_no) + Len(semicolon_lists) + Len(freeform_text) + Len(questions)
    /\ Len(result.multi_radio_questions[questions[1].prompt].rows) = 6
    /\ result.multi_radio_questions[questions[1].prompt].rows[1] =
          [Option |-> survey_form[3], counts |-> <<0, 0, 0>>]
    /\ result.yes_no[survey_form[10]] = <<>>

====
